---- MODULE Spec2Model ----
(***************************************************************************)
(* Request correlation and dispatch engine of TrustWeb3Provider            *)
(* (src/src/index.js, with the older variant src/unnamed/part_000).        *)
(*                                                                         *)
(* One provider instance (window.ethereum) is modelled in full: its       *)
(* session state, its callbacks / wrapResults maps, its IdMapping, and the *)
(* promise of every call made through _request.  The host application,    *)
(* the upstream RPC server and the providers of the nested frames are the  *)
(* environment: the host calls sendResponse / sendError with any id and    *)
(* value, the server answers rpc.call, and any of the frames may hold the  *)
(* id a response is looked up under.                                       *)
(***************************************************************************)
EXTENDS Integers, Sequences, FiniteSets, TLC

VARIABLES
    variant,      \* which of the two provider sources runs: "index" | "legacy"
    session,      \* address, ready, chainId, networkVersion, isProxyRPC
    callbacks,    \* this.callbacks   : internal id -> the call whose closure it holds
    wrapResults,  \* this.wrapResults : internal id -> BOOLEAN
    intIds,       \* this.idMapping.intIds : internal id -> external id
    calls         \* the calls made through _request, in order, with their promises

vars == <<variant, session, callbacks, wrapResults, intIds, calls>>

(***************************************************************************)
(* Bounds of the model.                                                    *)
(***************************************************************************)
MaxCalls == 2      \* calls made through _request
RandSpan == 1      \* Math.floor(Math.random() * 1000) is drawn from 0..RandSpan

\* The internal ids of the model.  All calls of a run are made while
\* Date.getTime() reads 1, so that Utils.genId() returns 1 + (0..RandSpan).
IdSpace == 1 .. (1 + RandSpan)

(***************************************************************************)
(* Values.  Every JavaScript value the model handles is a record with a    *)
(* tag, so that any two of them can be compared.                           *)
(***************************************************************************)
Absent == [k |-> "absent"]            \* payload.id is undefined
NumId(n) == [k |-> "num", n |-> n]      \* payload.id is the number n
StrId(n) == [k |-> "str", n |-> n]      \* payload.id is the decimal string of n

\* The ids a dapp supplies: none, 0, a number, a number written as a string.
ExtIds == {Absent, NumId(0), NumId(1), StrId(1)}

\* JavaScript's !id : undefined and 0 are falsy, every other id here is truthy.
IsFalsyId(id) == id.k = "absent" \/ id = NumId(0)

Null == [t |-> "null"]
StrV(s) == [t |-> "str", s |-> s]
ListV(items) == [t |-> "list", items |-> items]
ObjV(id, result) == [t |-> "obj", jsonrpc |-> "2.0", id |-> id, result |-> result]

\* JavaScript truthiness of a value.
Truthy(v) ==
    CASE v.t = "null" -> FALSE
      [] v.t = "str" -> v.s # ""
      [] OTHER -> TRUE

ProviderRpcError(code, message) ==
    [t |-> "err", name |-> "ProviderRpcError", code |-> code, message |-> message]
Error(message) == [t |-> "err", name |-> "Error", message |-> message]
TypeError == [t |-> "err", name |-> "TypeError", message |-> "cannot read property"]
SyntaxError == [t |-> "err", name |-> "SyntaxError", message |-> "not valid JSON"]
ReferenceError == [t |-> "err", name |-> "ReferenceError", message |-> "not defined"]

\* What the host application answers with, and what it reports as an error
\* (an Error object, or a bare string).
HostResults ==
    {Null, StrV("0xsig"), ObjV(Absent, StrV("0xinner")), ObjV(Absent, Null)}
HostErrors == {Error("rejected by user"), StrV("cancelled")}

\* What the upstream JSON-RPC server answers with.
UpstreamResults == {StrV("0x2a")}
UpstreamError == Error("upstream failure")

(***************************************************************************)
(* Maps (JavaScript Map) as functions with a finite domain.                *)
(***************************************************************************)
EmptyMap == << >>
Has(m, k) == k \in DOMAIN m
MapSet(m, k, v) == [x \in (DOMAIN m) \cup {k} |-> IF x = k THEN v ELSE m[x]]
MapDelete(m, k) == [x \in (DOMAIN m) \ {k} |-> m[x]]

(***************************************************************************)
(* Session state: setAddress, setConfig, and the four local answers.       *)
(***************************************************************************)
\* The addresses and chain ids a configuration can carry.
AddressInputs == {"", "0xAbC"}
ChainIds == {1, 56}
\* The configurations the page is constructed and reconfigured with: either
\* address, on chain 1 without the proxy flag or on chain 56 with it.
Configs ==
    {[address |-> a, chainId |-> 1, isProxyRPC |-> FALSE] : a \in AddressInputs}
    \cup {[address |-> a, chainId |-> 56, isProxyRPC |-> TRUE] : a \in AddressInputs}

\* String.prototype.toLowerCase on the addresses of the model.
toLowerCase(str) == IF str = "0xAbC" THEN "0xabc" ELSE str

HexDigits == <<"0", "1", "2", "3", "4", "5", "6", "7", "8", "9",
               "a", "b", "c", "d", "e", "f">>

\* Number.prototype.toString(radix), for radix 10 and 16.
RECURSIVE toString(_, _)
toString(int, radix) ==
    IF int < radix THEN HexDigits[int + 1]
    ELSE toString(int \div radix, radix) \o HexDigits[(int % radix) + 1]

\* Utils.intToHex
intToHex(int) == "0x" \o toString(int, 16)

\* A setAddress that stores the address as supplied.
setAddress_keepsCase(s, address) ==
    [s EXCEPT !.address = address,
              !.ready = (address # "")]

\* setAddress(address): the fields it assigns.
setAddress(s, address) ==
    [s EXCEPT !.address = toLowerCase(address),
              !.ready = (address # "")]

\* setConfig(config): setAddress, then chainId, networkVersion and the proxy flag
\* (the older variant has no proxy flag: it stays unset, that is falsy).
setConfig(s, config, v) ==
    [setAddress(s, config.address) EXCEPT
        !.chainId = intToHex(config.chainId),
        !.networkVersion = toString(config.chainId, 10),
        !.isProxyRPC = IF v = "index" THEN config.isProxyRPC ELSE FALSE]

\* eth_accounts without the test of the address: return [this.address]
eth_accounts_unguarded(s) == ListV(<<s.address>>)

eth_accounts(s) == IF s.address # "" THEN ListV(<<s.address>>) ELSE ListV(<< >>)
eth_coinbase(s) == StrV(s.address)
net_version(s) == StrV(s.networkVersion)
eth_chainId(s) == StrV(s.chainId)

(***************************************************************************)
(* The provider while one handler runs.  A handler is a function from the  *)
(* provider's fields to the provider's fields; the record `this` carries   *)
(* the fields (v, s, cb, wr, ids, calls) and what the handler did so far:  *)
(* the messages it posted to the host (msgs), whether it called the        *)
(* upstream server, the closures it invoked, the promises it settled and   *)
(* with what, the frames it handed the response to, the exception it       *)
(* threw (Null when none) and the value it returned (send only).           *)
(***************************************************************************)
This ==
    [v |-> variant, s |-> session, cb |-> callbacks, wr |-> wrapResults,
     ids |-> intIds, calls |-> calls,
     msgs |-> << >>, upstream |-> FALSE, invoked |-> << >>, settled |-> << >>,
     frameHits |-> {}, threw |-> Null, ret |-> Null]

\* resolve(value) / reject(error) of a promise: only a pending promise changes.
settle(this, c, st, val) ==
    IF this.calls[c].st = "pending"
    THEN [this EXCEPT !.calls[c].st = st,
                      !.settled = Append(@, [call |-> c, st |-> st, val |-> val])]
    ELSE this

\* The closure _request stores in this.callbacks for call c:
\*   (error, data) => { if (error) reject(error); else resolve(data); }
callback(this, c, error, data) ==
    LET t == [this EXCEPT !.calls[c].inv = @ + 1, !.invoked = Append(@, c)]
    IN  IF Truthy(error) THEN settle(t, c, "rejected", error)
        ELSE settle(t, c, "resolved", data)

(***************************************************************************)
(* IdMapping (./id_mapping) and Utils.genId.                               *)
(***************************************************************************)
\* tryIntifyId(payload): the internal ids it may mint for a payload that carries
\* an id: any integer this instance has not given to a call before.
FreshIds == IdSpace \ {calls[c].id : c \in DOMAIN calls}

\* tryIntifyId(payload): the entry it records for the minted id.
tryIntifyId(ids, id, ext) == MapSet(ids, id, ext)

\* tryPopId(id): the value it returns (Absent, that is undefined, when the id
\* has no entry).
tryPopId(ids, id) == IF Has(ids, id) THEN ids[id] ELSE Absent

\* tryPopId(id): the entries it leaves.
tryPopIdRest(ids, id) == MapDelete(ids, id)

\* Utils.genId(): new Date().getTime() + Math.floor(Math.random() * 1000)
genId == {1 + r : r \in 0 .. RandSpan}

(***************************************************************************)
(* sendError, sendResponse, postMessage.                                   *)
(***************************************************************************)
\* A sendError that also forgets the account when the host reports an error.
sendError_forgetsAddress(this, id, error) ==
    IF Has(this.cb, id)
    THEN LET e == IF error.t = "err" THEN error ELSE Error(error.s)
         IN  [callback(this, this.cb[id], e, Null) EXCEPT
                 !.cb = MapDelete(@, id), !.s.address = "", !.s.ready = FALSE]
    ELSE this

sendError(this, id, error) ==
    IF Has(this.cb, id)
    THEN LET e == IF error.t = "err" THEN error ELSE Error(error.s)
         IN  [callback(this, this.cb[id], e, Null) EXCEPT !.cb = MapDelete(@, id)]
    ELSE this

\* result != null && typeof result === "object" && result.jsonrpc && result.result
IsEnvelope(result) == result.t = "obj" /\ Truthy(result.result)

\* window.frames, and the sets of frames whose provider may hold an id.
Frames == {"frame0", "frame1"}

\* sendResponse(id, result); holders are the frames whose
\* frame.ethereum.callbacks.has(id) answers true.
sendResponse(this, id, result, holders) ==
    LET popped == tryPopId(this.ids, id)
        originId == IF IsFalsyId(popped) THEN NumId(id) ELSE popped
        t1 == [this EXCEPT !.ids = tryPopIdRest(@, id)]
        data == ObjV(originId, IF IsEnvelope(result) THEN result.result ELSE result)
    IN  IF this.v = "legacy" /\ result = Null
        THEN [t1 EXCEPT !.threw = TypeError]     \* null.jsonrpc
        ELSE IF Has(t1.cb, id)
        THEN LET t2 == IF t1.wr[id] THEN callback(t1, t1.cb[id], Null, data)
                       ELSE callback(t1, t1.cb[id], Null, result)
             IN  [t2 EXCEPT !.cb = MapDelete(@, id)]
        ELSE [t1 EXCEPT !.frameHits = holders]

\* An allow-list that lacks the three actions added last.
AllowList_short(v) == {"requestAccounts", "addEthereumChain"}

\* The actions postMessage lets through before the provider is ready.
AllowList(v) ==
    IF v = "index"
    THEN {"requestAccounts", "addEthereumChain", "switchEthereumChain",
          "getPermissions", "requestPermissions"}
    ELSE {"requestAccounts", "addEthereumChain"}

\* A postMessage that posts to the host before it looks at the gate.
postMessage_postsBeforeGate(this, handler, id, data) ==
    LET posted == [this EXCEPT !.msgs = Append(@,
                      [name |-> handler, payload |-> data,
                       id |-> IF this.v = "index" THEN StrId(id) ELSE NumId(id)])]
    IN  IF this.s.ready \/ handler \in AllowList(this.v)
        THEN posted
        ELSE sendError(posted, id, ProviderRpcError(4100, "provider is not ready"))

postMessage(this, handler, id, data) ==
    IF this.s.ready \/ handler \in AllowList(this.v)
    THEN [this EXCEPT !.msgs = Append(@,
              [name |-> handler, payload |-> data,
               id |-> IF this.v = "index" THEN StrId(id) ELSE NumId(id)])]
    ELSE sendError(this, id, ProviderRpcError(4100, "provider is not ready"))

(***************************************************************************)
(* The handlers _request dispatches to.  payload is [id, method, params];  *)
(* params is "utf8" (a text message), "binary" (bytes that are not UTF-8), *)
(* "empty" (payload.params is []) or "missing" (payload.params is          *)
(* undefined).                                                             *)
(***************************************************************************)
ParamsInputs == {"utf8", "binary", "empty", "missing"}

throw(this, error) == [this EXCEPT !.threw = error]

wallet_rpcCall(this, payload) == postMessage(this, "rpcCall", payload.id, "payload")

\* An eth_sign that takes the two branches of isUtf8(buffer) the other way round.
eth_sign_swapped(this, payload) ==
    IF this.v = "legacy" /\ payload.params = "missing" THEN throw(this, TypeError)
    ELSE IF payload.params = "empty" THEN throw(this, TypeError)
    ELSE IF payload.params # "binary"
    THEN postMessage(this, "signMessage", payload.id, "hex")
    ELSE postMessage(this, "signPersonalMessage", payload.id, "hex")

eth_sign(this, payload) ==
    IF this.v = "legacy" /\ payload.params = "missing" THEN throw(this, TypeError)
    ELSE IF payload.params = "empty" THEN throw(this, TypeError)   \* Buffer.from(undefined)
    ELSE IF payload.params # "binary"
    THEN postMessage(this, "signPersonalMessage", payload.id, "hex")
    ELSE postMessage(this, "signMessage", payload.id, "hex")

personal_sign(this, payload) ==
    IF this.v = "legacy" /\ payload.params = "missing" THEN throw(this, TypeError)
    ELSE IF payload.params = "empty" THEN throw(this, TypeError)   \* Buffer.from(undefined)
    ELSE IF payload.params = "missing"
    THEN postMessage(this, "signPersonalMessage", payload.id, "hex")
    ELSE postMessage(this, "signPersonalMessage", payload.id, "message")

personal_ecRecover(this, payload) ==
    IF payload.params = "missing" THEN throw(this, TypeError)
    ELSE postMessage(this, "ecRecover", payload.id, "signature,message")

eth_signTypedData(this, payload) ==
    IF payload.params = "missing" THEN throw(this, TypeError)
    ELSE IF payload.params = "empty" THEN throw(this, SyntaxError) \* JSON.parse(undefined)
    ELSE postMessage(this, "signTypedMessage", payload.id, "data")

eth_sendTransaction(this, payload) ==
    IF payload.params = "missing" THEN throw(this, TypeError)
    ELSE postMessage(this, "signTransaction", payload.id, "params[0]")

eth_requestAccounts(this, payload) ==
    postMessage(this, "requestAccounts", payload.id, "{}")

wallet_watchAsset(this, payload) ==
    IF payload.params \in {"missing", "empty"} THEN throw(this, TypeError)
    ELSE postMessage(this, "watchAsset", payload.id, "options")

wallet_addEthereumChain(this, payload) ==
    IF payload.params = "missing" THEN throw(this, TypeError)
    ELSE postMessage(this, "addEthereumChain", payload.id, "params[0]")

wallet_switchEthereumChain(this, payload) ==
    IF payload.params = "missing" THEN throw(this, TypeError)
    ELSE postMessage(this, "switchEthereumChain", payload.id, "params[0]")

wallet_getPermissions(this, payload) ==
    postMessage(this, "getPermissions", payload.id, "{}")

wallet_requestPermissions(this, payload) ==
    postMessage(this, "requestPermissions", payload.id, "params")

LocalMethods == {"eth_accounts", "eth_coinbase", "net_version", "eth_chainId"}
UnsupportedMethods ==
    {"eth_newFilter", "eth_newBlockFilter", "eth_newPendingTransactionFilter",
     "eth_uninstallFilter", "eth_subscribe"}
BridgeMethods ==
    {"eth_sign", "personal_sign", "personal_ecRecover", "eth_signTypedData_v3",
     "eth_signTypedData", "eth_signTypedData_v4", "eth_sendTransaction",
     "eth_requestAccounts", "wallet_watchAsset", "wallet_addEthereumChain",
     "wallet_switchEthereumChain", "wallet_getPermissions",
     "wallet_requestPermissions"}
\* The cases the older variant's switch does not have: they fall to its default.
IndexOnlyMethods ==
    {"eth_signTypedData_v4", "wallet_switchEthereumChain", "wallet_getPermissions",
     "wallet_requestPermissions"}
Methods == LocalMethods \cup BridgeMethods \cup UnsupportedMethods \cup {"foo_bar"}

\* A default case that calls upstream without unregistering the call.
default_keepsCallback(this, payload) ==
    IF this.s.isProxyRPC THEN wallet_rpcCall(this, payload)
    ELSE [this EXCEPT !.upstream = TRUE]

\* A default case that does not look at the proxy flag.
default_ignoresProxy(this, payload) ==
    [this EXCEPT !.cb = MapDelete(@, payload.id),
                 !.wr = MapDelete(@, payload.id),
                 !.upstream = TRUE]

\* The default case of the switch: forward to the host under the proxy flag,
\* else unregister and call the upstream RPC server.
default(this, payload) ==
    IF this.s.isProxyRPC THEN wallet_rpcCall(this, payload)
    ELSE [this EXCEPT !.cb = MapDelete(@, payload.id),
                      !.wr = MapDelete(@, payload.id),
                      !.upstream = TRUE]

\* The switch of _request.
dispatch(this, payload) ==
    LET m == payload.method IN
    IF this.v = "legacy" /\ m \in IndexOnlyMethods THEN default(this, payload)
    ELSE CASE m = "eth_accounts" -> sendResponse(this, payload.id, eth_accounts(this.s), {})
      [] m = "eth_coinbase" -> sendResponse(this, payload.id, eth_coinbase(this.s), {})
      [] m = "net_version" -> sendResponse(this, payload.id, net_version(this.s), {})
      [] m = "eth_chainId" -> sendResponse(this, payload.id, eth_chainId(this.s), {})
      [] m = "eth_sign" -> eth_sign(this, payload)
      [] m = "personal_sign" -> personal_sign(this, payload)
      [] m = "personal_ecRecover" -> personal_ecRecover(this, payload)
      [] m \in {"eth_signTypedData_v3", "eth_signTypedData", "eth_signTypedData_v4"}
            -> eth_signTypedData(this, payload)
      [] m = "eth_sendTransaction" -> eth_sendTransaction(this, payload)
      [] m = "eth_requestAccounts" -> eth_requestAccounts(this, payload)
      [] m = "wallet_watchAsset" -> wallet_watchAsset(this, payload)
      [] m = "wallet_addEthereumChain" -> wallet_addEthereumChain(this, payload)
      [] m = "wallet_switchEthereumChain" -> wallet_switchEthereumChain(this, payload)
      [] m = "wallet_getPermissions" -> wallet_getPermissions(this, payload)
      [] m = "wallet_requestPermissions" -> wallet_requestPermissions(this, payload)
      [] m \in UnsupportedMethods
            -> throw(this, ProviderRpcError(4200, "does not support calling"))
      [] OTHER -> default(this, payload)

\* The case of the switch a method falls under.
KindOf(method) ==
    IF method \in LocalMethods THEN "local"
    ELSE IF method \in BridgeMethods THEN "bridge"
    ELSE IF method \in UnsupportedMethods THEN "unsupported"
    ELSE "default"

\* A pending call as the Promise executor of _request creates it: the id the
\* caller gave (ext), the result shape asked for (wrap), the internal id, the
\* promise (st), how often its closure was invoked (inv), the upstream call
\* (up), the case of the switch its method falls under (kind) and where the
\* switch sent it (route, set when the executor returns).
NewCall(payload, wrapResult, id) ==
    [ext |-> payload.id, wrap |-> wrapResult, id |-> id, st |-> "pending",
     inv |-> 0, up |-> "none", kind |-> KindOf(payload.method), route |-> "Created"]

\* Where the executor left call c: answered locally, posted to the host, handed
\* to the upstream server, or rejected on the spot (not ready, or an exception).
RouteOf(t, c) ==
    IF t.threw # Null THEN "RejectedImmediately"
    ELSE IF t.upstream THEN "UpstreamDispatched"
    ELSE IF t.msgs # << >> THEN "BridgeDispatched"
    ELSE IF t.calls[c].st = "resolved" THEN "LocalResolved"
    ELSE "RejectedImmediately"

\* The ids payload.id may hold once the callback is registered: the id
\* tryIntifyId minted for a payload that carried one, else Utils.genId().
InternalIds(ext) == IF ext.k # "absent" THEN FreshIds ELSE genId

\* _request(payload, wrapResult), up to the return of the Promise executor;
\* payload is [id: the id the caller gave, method, params] and id is the
\* internal id the payload ends up with.  An exception thrown inside the
\* executor rejects the promise.
_request(this, payload, wrapResult, id) ==
    LET c == Len(this.calls) + 1
        ext == payload.id
        t0 == [this EXCEPT
                  !.ids = IF ext.k # "absent" THEN tryIntifyId(@, id, ext) ELSE @,
                  !.calls = Append(@, NewCall(payload, wrapResult, id)),
                  !.cb = MapSet(@, id, c),
                  !.wr = MapSet(@, id, wrapResult)]
        t1 == dispatch(t0, [payload EXCEPT !.id = id])
        t2 == [t1 EXCEPT !.calls[c].route = RouteOf(t1, c),
                         !.calls[c].up = IF t1.upstream THEN "pending" ELSE "none"]
    IN  IF t2.threw # Null
        THEN [settle(t2, c, "rejected", t2.threw) EXCEPT !.threw = Null]
        ELSE t2

\* What send is called with: a payload object or a method string, and a
\* callback function, an array of params or nothing.
SendInputs ==
    [k : {"payload"}, id : ExtIds, method : Methods, params : ParamsInputs]
        \cup [k : {"method"}, method : Methods]
CallbackOrParams == {"function", "null", "utf8"}

\* send(payloadOrMethod, callbackOrParams); gen is what Utils.genId() returns
\* and id the internal id _request runs the call under.  The older variant is
\* send(payload), which answers the four local methods and throws otherwise.
send(this, payloadOrMethod, callbackOrParams, gen, id) ==
    LET isPayload == payloadOrMethod.k = "payload"
        hasCallback == callbackOrParams = "function"
        response ==
          IF isPayload
          THEN [id |-> IF IsFalsyId(payloadOrMethod.id) THEN NumId(gen)
                       ELSE payloadOrMethod.id,
                method |-> payloadOrMethod.method,
                params |-> IF payloadOrMethod.params = "missing" THEN "empty"
                           ELSE payloadOrMethod.params]
          ELSE [id |-> NumId(gen),
                method |-> payloadOrMethod.method,
                params |-> IF callbackOrParams = "null" THEN "empty"
                           ELSE callbackOrParams]
    IN  IF this.v = "legacy"
        THEN IF isPayload /\ payloadOrMethod.method \in LocalMethods
             THEN LET m == payloadOrMethod.method
                      result == CASE m = "eth_accounts" -> eth_accounts(this.s)
                                  [] m = "eth_coinbase" -> eth_coinbase(this.s)
                                  [] m = "net_version" -> net_version(this.s)
                                  [] m = "eth_chainId" -> eth_chainId(this.s)
                  IN  [this EXCEPT !.ret = ObjV(payloadOrMethod.id, result)]
             ELSE throw(this, ProviderRpcError(4200, "does not support calling"))
        ELSE IF isPayload = hasCallback
        THEN _request(this, response, TRUE, id)
        ELSE throw(this, Error("does not support calling"))

\* send with a payload and a callback, once the promise of _request is settled:
\*   .then(data => { callbackOrParams(null, data); })
\*   .catch((error) => callback(error, null))
\* where callback is not a name in scope.  It yields the calls of the caller's
\* callback and the error left unhandled; cbThrows says whether the caller's
\* callback throws.
sendSettled(st, val, cbThrows) ==
    IF st = "resolved"
    THEN [cbCalls |-> <<[error |-> Null, data |-> val]>>,
          unhandled |-> IF cbThrows THEN ReferenceError ELSE Null]
    ELSE [cbCalls |-> << >>, unhandled |-> ReferenceError]

\* The elements of the arrays sendAsync is called with: payloads without an
\* id or with a string id, with well-formed params.
AsyncElements == [id : {Absent, StrId(1)}, method : Methods, params : {"utf8"}]

\* _request called after other calls of the same handler: what it posts and
\* hands upstream is added to what they did.
nextRequest(this, payload, wrapResult, id) ==
    LET t == _request([this EXCEPT !.msgs = << >>, !.upstream = FALSE],
                      payload, wrapResult, id)
    IN  [t EXCEPT !.msgs = this.msgs \o @, !.upstream = this.upstream \/ @]

\* The calls sendAsync(payload, callback) makes; ids are the internal ids they
\* run under.  For an array it is payload.map(that._request.bind(that)): map
\* passes (element, index, array), so that element number index (from 0) runs
\* as _request(element, index) and wrapResult is the index, falsy for the
\* first element.  Otherwise it is that._request(payload), wrapResult true.
\* In the model a payload that is not an array is a sequence of one element
\* with isArray false.
RECURSIVE sendAsyncFrom(_, _, _, _)
sendAsyncFrom(this, index, payload, ids) ==
    IF payload = << >> THEN this
    ELSE sendAsyncFrom(nextRequest(this, Head(payload), index # 0, Head(ids)),
                       index + 1, Tail(payload), Tail(ids))

sendAsync(this, isArray, payload, ids) ==
    IF isArray THEN sendAsyncFrom(this, 0, payload, ids)
    ELSE _request(this, payload[1], TRUE, ids[1])

\* Promise.all over the promises of calls cs (in array order), given the
\* settlements made so far in the order they were made: rejected with the
\* first rejection, else fulfilled with the values in array order once every
\* promise is fulfilled, else pending.
promiseAll(settled, cs) ==
    LET ours == SelectSeq(settled, LAMBDA x : \E i \in DOMAIN cs : cs[i] = x.call)
        rejections == SelectSeq(ours, LAMBDA x : x.st = "rejected")
        valueOf(c) == (CHOOSE i \in DOMAIN ours :
                          ours[i].call = c /\ ours[i].st = "resolved")
    IN  IF rejections # << >>
        THEN [st |-> "rejected", val |-> rejections[1].val]
        ELSE IF \A i \in DOMAIN cs :
                   \E j \in DOMAIN ours : ours[j].call = cs[i] /\ ours[j].st = "resolved"
        THEN [st |-> "resolved",
              val |-> ListV([i \in DOMAIN cs |-> ours[valueOf(cs[i])].val])]
        ELSE [st |-> "pending", val |-> Null]

\* The calls of the caller's callback once the promise p of sendAsync is
\* settled:  .then((data) => callback(null, data))
\*           .catch((error) => callback(error, null))
\* The catch is chained after the then, so it also receives what the callback
\* throws (cbThrows) when called with the data.
sendAsyncSettled(p, cbThrows) ==
    IF p.st = "resolved"
    THEN <<[error |-> Null, data |-> p.val]>>
           \o (IF cbThrows THEN <<[error |-> Error("thrown by callback"), data |-> Null]>>
               ELSE << >>)
    ELSE IF p.st = "rejected" THEN <<[error |-> p.val, data |-> Null]>>
    ELSE << >>

\* this.rpc.call(payload) fulfils: .then((response) => wrapResult ?
\* resolve(response) : resolve(response.result)).  The server echoes the id of
\* the payload it was sent.
rpcFulfilled(this, c, result) ==
    LET response == ObjV(NumId(this.calls[c].id), result)
        value == IF this.calls[c].wrap THEN response ELSE response.result
    IN  settle([this EXCEPT !.calls[c].up = "done"], c, "resolved", value)

\* this.rpc.call(payload) rejects: .catch(reject)
rpcRejected(this, c, error) ==
    settle([this EXCEPT !.calls[c].up = "done"], c, "rejected", error)

(***************************************************************************)
(* Actions.                                                                *)
(***************************************************************************)
\* The provider's fields after a handler.
Commit(this) ==
    /\ session' = this.s
    /\ callbacks' = this.cb
    /\ wrapResults' = this.wr
    /\ intIds' = this.ids
    /\ calls' = this.calls
    /\ UNCHANGED variant

\* A dapp calls request(payload) (wrapResult false) or _request(payload).
Request ==
    /\ Len(calls) < MaxCalls
    /\ \E ext \in ExtIds, method \in Methods, params \in ParamsInputs,
          wrapResult \in BOOLEAN :
          \E id \in InternalIds(ext) :
             Commit(_request(This, [id |-> ext, method |-> method, params |-> params],
                             wrapResult, id))

\* A dapp calls send(payloadOrMethod, callbackOrParams).
Send ==
    /\ Len(calls) < MaxCalls
    /\ \E payloadOrMethod \in SendInputs, callbackOrParams \in CallbackOrParams :
          LET calling == variant = "index"
                         /\ (payloadOrMethod.k = "payload") = (callbackOrParams = "function")
              generating == calling /\ (payloadOrMethod.k = "method"
                                          \/ IsFalsyId(payloadOrMethod.id))
          IN  \E gen \in (IF generating THEN genId ELSE {1}),
                 id \in (IF calling THEN FreshIds ELSE {1}) :
                Commit(send(This, payloadOrMethod, callbackOrParams, gen, id))

\* The ids the elements of an array may run under, one after the other.
AsyncIds(payload) ==
    IF Len(payload) = 1 THEN {<<id>> : id \in InternalIds(payload[1].id)}
    ELSE UNION {{<<id1, id2>> : id2 \in (IF payload[2].id.k # "absent"
                                         THEN FreshIds \ {id1} ELSE genId)} :
                  id1 \in InternalIds(payload[1].id)}

\* A dapp calls sendAsync(payload, callback) with a payload or an array of
\* one or two payloads.
SendAsync ==
    /\ Len(calls) < MaxCalls
    /\ \E n \in 1 .. (IF Len(calls) + 2 <= MaxCalls THEN 2 ELSE 1) :
          \E payload \in [1 .. n -> AsyncElements], isArray \in BOOLEAN :
             /\ (n > 1 => isArray)
             /\ \E ids \in AsyncIds(payload) :
                   Commit(sendAsync(This, isArray, payload, ids))

\* The host application calls window.ethereum.sendResponse(id, result).
HostSendResponse(id, result) ==
    /\ id \in IdSpace
    /\ \E holders \in (IF Has(callbacks, id) THEN {{}} ELSE {Frames}) :
          Commit(sendResponse(This, id, result, holders))

\* The host application calls window.ethereum.sendError(id, error).
HostSendError(id, error) ==
    /\ id \in IdSpace
    /\ Commit(sendError(This, id, error))

\* The upstream server answers a call handed to this.rpc.call.
UpstreamFulfils(c, result) ==
    /\ c \in DOMAIN calls /\ calls[c].up = "pending"
    /\ Commit(rpcFulfilled(This, c, result))

\* The upstream call fails.
UpstreamRejects(c) ==
    /\ c \in DOMAIN calls /\ calls[c].up = "pending"
    /\ Commit(rpcRejected(This, c, UpstreamError))

SetAddress(address) ==
    /\ session' = setAddress(session, address)
    /\ UNCHANGED <<variant, callbacks, wrapResults, intIds, calls>>

SetConfig(config) ==
    /\ session' = setConfig(session, config, variant)
    /\ UNCHANGED <<variant, callbacks, wrapResults, intIds, calls>>

\* The state the constructor leaves: setConfig(config), empty maps.
Constructed(v) ==
    /\ variant = v
    /\ \E config \in Configs :
          session = setConfig([address |-> "", ready |-> FALSE, chainId |-> "",
                               networkVersion |-> "", isProxyRPC |-> FALSE],
                              config, v)
    /\ callbacks = EmptyMap
    /\ wrapResults = EmptyMap
    /\ intIds = EmptyMap
    /\ calls = << >>

Init == Constructed("index")
InitLegacy == Constructed("legacy")

Next ==
    \/ Request
    \/ Send
    \/ SendAsync
    \/ \E id \in IdSpace, result \in HostResults : HostSendResponse(id, result)
    \/ \E id \in IdSpace, error \in HostErrors : HostSendError(id, error)
    \/ \E c \in 1 .. MaxCalls, result \in UpstreamResults : UpstreamFulfils(c, result)
    \/ \E c \in 1 .. MaxCalls : UpstreamRejects(c)
    \/ \E address \in AddressInputs : SetAddress(address)
    \/ \E config \in Configs : SetConfig(config)

Spec == Init /\ [][Next]_vars

\* The same engine run from the older source (src/unnamed/part_000).
SpecLegacy == InitLegacy /\ [][Next]_vars

(***************************************************************************)
(* Properties.  A property about what a handler does is stated over every  *)
(* reachable state of the provider and every input of the handler: the     *)
(* handler is applied to the state (This) and its outcome is inspected     *)
(* (the promise settled, the messages posted, the maps it leaves).         *)
(***************************************************************************)
\* The payloads a dapp can pass whose method is one of ms.
Payloads(ms) == [id : ExtIds, method : ms, params : ParamsInputs]

\* The internal ids the next call of _request may run under, if the provider
\* takes another call.
NextIds(payload) == IF Len(calls) < MaxCalls THEN InternalIds(payload.id) ELSE {}

\* The id a reply to call c owes its caller: the id the caller gave, or the id
\* assigned to the call when the caller gave none.
OriginalId(t, c) ==
    IF t.calls[c].ext = Absent THEN NumId(t.calls[c].id) ELSE t.calls[c].ext

\* The value a local method answers with, read off the session fields.
SessionValue(s, method) ==
    CASE method = "eth_accounts" ->
             [t |-> "list", items |-> IF s.address = "" THEN << >> ELSE <<s.address>>]
      [] method = "eth_coinbase" -> [t |-> "str", s |-> s.address]
      [] method = "net_version" -> [t |-> "str", s |-> s.networkVersion]
      [] method = "eth_chainId" -> [t |-> "str", s |-> s.chainId]

\* C5: a call of eth_accounts, eth_coinbase, net_version or eth_chainId is
\* resolved before _request returns, with the value of the session field the
\* method names (bare, or as the result of the envelope), without a message to
\* the host and without an upstream call, whatever ready and isProxyRPC are.
C5_LocalMethodsSettleSynchronously ==
    \A payload \in Payloads(LocalMethods), wrapResult \in BOOLEAN :
      \A id \in NextIds(payload) :
        LET t == _request(This, payload, wrapResult, id)
            c == Len(calls) + 1
            expected == SessionValue(session, payload.method)
        IN  /\ t.calls[c].st = "resolved"
            /\ t.calls[c].inv = 1
            /\ Len(t.settled) = 1
            /\ t.settled[1].call = c
            /\ t.settled[1].st = "resolved"
            /\ IF wrapResult
               THEN /\ t.settled[1].val.t = "obj"
                    /\ t.settled[1].val.jsonrpc = "2.0"
                    /\ t.settled[1].val.result = expected
               ELSE t.settled[1].val = expected
            /\ t.msgs = << >>
            /\ ~t.upstream
            /\ t.s = session

\* C5 witness: local calls were resolved on the spot, one while the provider was
\* not ready and the proxy flag was set.
C5_Witness ==
    /\ ~session.ready
    /\ session.isProxyRPC
    /\ Len(calls) = MaxCalls
    /\ \A c \in DOMAIN calls :
          /\ calls[c].kind = "local"
          /\ calls[c].route = "LocalResolved"
          /\ calls[c].st = "resolved"
          /\ calls[c].inv = 1
    /\ calls[1].wrap /\ ~calls[2].wrap

\* Every call registered under id had its closure invoked: a delivery for id
\* is a further delivery.
Spent(id) ==
    /\ \E c \in DOMAIN calls : calls[c].id = id
    /\ \A c \in DOMAIN calls : calls[c].id = id => calls[c].inv >= 1

\* A delivery that left the provider as it was and raised nothing.
NoOp(t) ==
    /\ t.cb = callbacks
    /\ t.wr = wrapResults
    /\ t.ids = intIds
    /\ t.calls = calls
    /\ t.invoked = << >>
    /\ t.threw = Null

\* C1: the closure of a call is invoked at most once, and once the calls under
\* an id have been delivered to, any further sendResponse or sendError for the
\* id leaves callbacks, wrapResults and the IdMapping as they are and throws
\* nothing.
C1_SettledOnceFurtherDeliveryNoOp ==
    /\ \A c \in DOMAIN calls : calls[c].inv <= 1
    /\ \A id \in IdSpace :
          Spent(id) =>
            /\ \A result \in HostResults : NoOp(sendResponse(This, id, result, {}))
            /\ \A error \in HostErrors : NoOp(sendError(This, id, error))

\* What stays of C1 when the IdMapping is left out: invoked at most once, and a
\* further delivery leaves callbacks, wrapResults and the promises alone.
C1_RegistryPart ==
    /\ \A c \in DOMAIN calls : calls[c].inv <= 1
    /\ \A id \in IdSpace :
          Spent(id) =>
            /\ \A result \in HostResults :
                  NoOp([sendResponse(This, id, result, {}) EXCEPT !.ids = intIds])
            /\ \A error \in HostErrors : NoOp(sendError(This, id, error))

\* C2: a call that expects an envelope and is settled through sendResponse
\* (by the host, or by a local method inside _request) receives an envelope
\* whose id is the id its caller gave, or the id assigned to it when the caller
\* gave none.
C2_ReplyCarriesOriginalId ==
    /\ \A id \in DOMAIN callbacks, result \in HostResults :
          LET c == callbacks[id]
              t == sendResponse(This, id, result, {})
          IN  (wrapResults[id] /\ calls[c].st = "pending") =>
                /\ Len(t.settled) = 1
                /\ t.settled[1].call = c
                /\ t.settled[1].val.id = OriginalId(This, c)
    /\ \A payload \in Payloads(LocalMethods) :
          \A id \in NextIds(payload) :
            LET t == _request(This, payload, TRUE, id)
                c == Len(calls) + 1
            IN  /\ Len(t.settled) = 1
                /\ t.settled[1].val.id = OriginalId(t, c)

\* C2 for callers whose id is not 0, on a provider whose IdMapping holds no
\* entry left behind by an earlier call.
C2_TruthyIdsPart ==
    \A id \in DOMAIN callbacks, result \in HostResults :
      LET c == callbacks[id]
          t == sendResponse(This, id, result, {})
      IN  (/\ wrapResults[id]
           /\ calls[c].st = "pending"
           /\ calls[c].ext # NumId(0)
           /\ \A d \in DOMAIN calls : d # c => calls[d].id # id) =>
            /\ Len(t.settled) = 1
            /\ t.settled[1].call = c
            /\ t.settled[1].val.id = OriginalId(This, c)

\* A call the host has been asked to answer and has not answered yet.
AwaitsHost(c) == calls[c].st = "pending" /\ calls[c].route = "BridgeDispatched"

\* The results an envelope may carry for a host result: the result itself,
\* or its inner result when it is an envelope.
Carried(result) == {result} \cup (IF result.t = "obj" THEN {result.result} ELSE {})

\* C3: two calls in flight under the same external id have distinct internal
\* ids and each holds its own entry; a sendResponse for the one settles that
\* one with its result (in an envelope whose id is the shared external id) and
\* leaves the other pending and registered; no delivery for another id
\* settles it.
C3_SameExternalIdIndependent ==
    \A a \in DOMAIN calls, b \in DOMAIN calls :
      (a # b /\ AwaitsHost(a) /\ AwaitsHost(b)
         /\ calls[a].ext # Absent /\ calls[a].ext = calls[b].ext) =>
        /\ calls[a].id # calls[b].id
        /\ Has(callbacks, calls[a].id) /\ callbacks[calls[a].id] = a
        /\ \A result \in HostResults :
              LET t == sendResponse(This, calls[a].id, result, {})
              IN  /\ Len(t.settled) = 1
                  /\ t.settled[1].call = a
                  /\ t.settled[1].st = "resolved"
                  /\ IF calls[a].wrap
                     THEN /\ t.settled[1].val.id = calls[a].ext
                          /\ t.settled[1].val.result \in Carried(result)
                     ELSE t.settled[1].val = result
                  /\ t.calls[b] = calls[b]
                  /\ Has(t.cb, calls[b].id) /\ t.cb[calls[b].id] = b
        /\ \A id \in IdSpace \ {calls[a].id} :
              /\ \A result \in HostResults :
                    sendResponse(This, id, result, {}).calls[a] = calls[a]
              /\ \A error \in HostErrors :
                    sendError(This, id, error).calls[a] = calls[a]

\* C3 for a shared external id other than 0.
C3_TruthyIdsPart ==
    \A a \in DOMAIN calls, b \in DOMAIN calls :
      (a # b /\ AwaitsHost(a) /\ AwaitsHost(b) /\ calls[a].ext # NumId(0)
         /\ calls[a].ext # Absent /\ calls[a].ext = calls[b].ext) =>
        /\ calls[a].id # calls[b].id
        /\ Has(callbacks, calls[a].id) /\ callbacks[calls[a].id] = a
        /\ \A result \in HostResults :
              LET t == sendResponse(This, calls[a].id, result, {})
              IN  /\ Len(t.settled) = 1
                  /\ t.settled[1].call = a
                  /\ IF calls[a].wrap
                     THEN /\ t.settled[1].val.id = calls[a].ext
                          /\ t.settled[1].val.result \in Carried(result)
                     ELSE t.settled[1].val = result
                  /\ t.calls[b] = calls[b]
                  /\ Has(t.cb, calls[b].id) /\ t.cb[calls[b].id] = b

\* C4: no two calls in flight share an internal id, and a call the host has
\* still to answer keeps its own entry in callbacks: no later registration
\* has replaced it.
C4_InternalIdsUnique ==
    /\ \A a \in DOMAIN calls, b \in DOMAIN calls :
          (a # b /\ calls[a].st = "pending" /\ calls[b].st = "pending") =>
            calls[a].id # calls[b].id
    /\ \A a \in DOMAIN calls :
          AwaitsHost(a) => (Has(callbacks, calls[a].id) /\ callbacks[calls[a].id] = a)

\* The five actions the readiness gate exempts.
ExemptActions ==
    {"requestAccounts", "addEthereumChain", "switchEthereumChain",
     "getPermissions", "requestPermissions"}

\* C6: take a call whose handler, on a ready provider, posts one message to the
\* host.  If the action of the message is one of the five exempt ones, the same
\* message is posted whatever ready is and the call stays pending; otherwise,
\* while ready is false, no message is posted and the call is rejected with
\* code 4100.
C6_ReadinessGate ==
    \A payload \in Payloads(BridgeMethods \cup {"foo_bar"}), wrapResult \in BOOLEAN :
      \A id \in NextIds(payload) :
        LET c == Len(calls) + 1
            t == _request(This, payload, wrapResult, id)
            r == _request([This EXCEPT !.s.ready = TRUE], payload, wrapResult, id)
        IN  Len(r.msgs) = 1 =>
              IF r.msgs[1].name \in ExemptActions
              THEN /\ t.msgs = r.msgs
                   /\ t.settled = << >>
                   /\ t.calls[c].st = "pending"
              ELSE IF ~session.ready
              THEN /\ t.msgs = << >>
                   /\ ~t.upstream
                   /\ Len(t.settled) = 1
                   /\ t.settled[1].call = c
                   /\ t.settled[1].st = "rejected"
                   /\ t.settled[1].val.t = "err"
                   /\ t.settled[1].val.code = 4100
              ELSE t.msgs = r.msgs

\* C6 witness: on a provider that is not ready, one call of a bridge method was
\* rejected on the spot and another was posted to the host and is pending.
C6_Witness ==
    /\ ~session.ready
    /\ Len(calls) = MaxCalls
    /\ calls[1].kind = "bridge" /\ calls[1].route = "RejectedImmediately"
    /\ calls[1].st = "rejected" /\ calls[1].inv = 1
    /\ calls[2].kind = "bridge" /\ calls[2].route = "BridgeDispatched"
    /\ calls[2].st = "pending"
    /\ DOMAIN callbacks = {calls[2].id}

\* C7: a call of one of the five unsupported methods is rejected with code
\* 4200 before _request returns, posts nothing, calls nothing upstream, and
\* leaves no entry under its internal id in callbacks or wrapResults.
C7_UnsupportedLeavesNoEntry ==
    \A payload \in Payloads(UnsupportedMethods), wrapResult \in BOOLEAN :
      \A id \in NextIds(payload) :
        LET c == Len(calls) + 1
            t == _request(This, payload, wrapResult, id)
        IN  /\ Len(t.settled) = 1
            /\ t.settled[1].call = c
            /\ t.settled[1].st = "rejected"
            /\ t.settled[1].val.code = 4200
            /\ t.msgs = << >>
            /\ ~t.upstream
            /\ ~Has(t.cb, id)
            /\ ~Has(t.wr, id)

\* C7 without its last part: rejected with 4200, nothing posted, nothing
\* called upstream.
C7_RejectionPart ==
    \A payload \in Payloads(UnsupportedMethods), wrapResult \in BOOLEAN :
      \A id \in NextIds(payload) :
        LET c == Len(calls) + 1
            t == _request(This, payload, wrapResult, id)
        IN  /\ Len(t.settled) = 1
            /\ t.settled[1].call = c
            /\ t.settled[1].st = "rejected"
            /\ t.settled[1].val.code = 4200
            /\ t.msgs = << >>
            /\ ~t.upstream

\* C8: with the proxy flag off, a call of a method the switch has no case for
\* is unregistered from callbacks and wrapResults and handed to the upstream
\* server, nothing being posted to the host; when the server answers, a caller
\* of request receives the result of the response and a caller of _request the
\* whole response; when the server fails, the call is rejected with the
\* server's error.
C8_FallbackGoesUpstream ==
    /\ ~session.isProxyRPC =>
          \A payload \in Payloads({"foo_bar"}), wrapResult \in BOOLEAN :
            \A id \in NextIds(payload) :
              LET c == Len(calls) + 1
                  t == _request(This, payload, wrapResult, id)
              IN  /\ t.upstream
                  /\ t.calls[c].up = "pending"
                  /\ ~Has(t.cb, id)
                  /\ ~Has(t.wr, id)
                  /\ t.msgs = << >>
                  /\ t.settled = << >>
                  /\ t.calls[c].st = "pending"
    /\ \A c \in DOMAIN calls :
          calls[c].up = "pending" =>
            /\ calls[c].st = "pending"
            /\ \A result \in UpstreamResults :
                  LET t == rpcFulfilled(This, c, result)
                  IN  /\ Len(t.settled) = 1
                      /\ t.settled[1].call = c
                      /\ t.settled[1].st = "resolved"
                      /\ IF calls[c].wrap
                         THEN /\ t.settled[1].val.t = "obj"
                              /\ t.settled[1].val.jsonrpc = "2.0"
                              /\ t.settled[1].val.result = result
                         ELSE t.settled[1].val = result
            /\ LET t == rpcRejected(This, c, UpstreamError)
               IN  t.settled = <<[call |-> c, st |-> "rejected", val |-> UpstreamError]>>

\* C8 witness: with the proxy flag off, two calls went upstream; the server
\* answered the first, which expected an envelope, and failed the second.
C8_Witness ==
    /\ ~session.isProxyRPC
    /\ Len(calls) = MaxCalls
    /\ \A c \in DOMAIN calls :
          /\ calls[c].kind = "default"
          /\ calls[c].route = "UpstreamDispatched"
          /\ calls[c].up = "done"
          /\ calls[c].inv = 0
    /\ calls[1].wrap /\ calls[1].st = "resolved"
    /\ calls[2].st = "rejected"

\* C9: the envelope a caller of _request receives from the upstream path
\* carries the id the caller gave (or the id assigned to the call when the
\* caller gave none).
C9_UpstreamReplyCarriesOriginalId ==
    \A c \in DOMAIN calls, result \in UpstreamResults :
      (calls[c].up = "pending" /\ calls[c].wrap) =>
        LET t == rpcFulfilled(This, c, result)
        IN  /\ Len(t.settled) = 1
            /\ t.settled[1].val.id = OriginalId(This, c)

\* The call c that _request has just made under id was forwarded as rpcCall:
\* one message with the whole payload under the internal id, the call pending
\* and registered, and settled by a sendResponse or sendError for id and by
\* none for another id.
ForwardedAsRpcCall(t, c, id) ==
    /\ t.msgs = <<[name |-> "rpcCall", payload |-> "payload", id |-> StrId(id)]>>
    /\ Has(t.cb, id) /\ t.cb[id] = c
    /\ Has(t.wr, id)
    /\ t.settled = << >>
    /\ t.calls[c].st = "pending"
    /\ \A d \in IdSpace :
          /\ \A result \in HostResults :
                (sendResponse(t, d, result, {}).calls[c].st # "pending") <=> (d = id)
          /\ \A error \in HostErrors :
                (sendError(t, d, error).calls[c].st # "pending") <=> (d = id)

Unwrapped(result) == IF result.t = "obj" THEN result.result ELSE result

\* C11: sendResponse for a registered pending call settles an envelope-expecting
\* caller with {jsonrpc: "2.0", id: the caller's id, result}, where result is
\* the inner result of a host result that has a jsonrpc marker and a result
\* field and the host result itself otherwise; it settles a caller of request
\* with the bare value.
C11_ResponseShaping ==
    \A id \in DOMAIN callbacks, result \in HostResults :
      LET c == callbacks[id]
          t == sendResponse(This, id, result, {})
      IN  calls[c].st = "pending" =>
            /\ Len(t.settled) = 1
            /\ t.settled[1].call = c
            /\ t.settled[1].st = "resolved"
            /\ IF wrapResults[id]
               THEN t.settled[1].val =
                      [t |-> "obj", jsonrpc |-> "2.0", id |-> OriginalId(This, c),
                       result |-> Unwrapped(result)]
               ELSE t.settled[1].val \in {result, Unwrapped(result)}

\* C11 for callers whose id is not 0 and host results whose inner result is
\* truthy, on a provider whose IdMapping holds no entry left under a reused id.
C11_TruthyPart ==
    \A id \in DOMAIN callbacks, result \in HostResults :
      LET c == callbacks[id]
          t == sendResponse(This, id, result, {})
      IN  (/\ calls[c].st = "pending"
           /\ calls[c].ext # NumId(0)
           /\ result # ObjV(Absent, Null)
           /\ \A d \in DOMAIN calls : d # c => calls[d].id # id) =>
            /\ Len(t.settled) = 1
            /\ t.settled[1].call = c
            /\ t.settled[1].st = "resolved"
            /\ IF wrapResults[id]
               THEN t.settled[1].val =
                      [t |-> "obj", jsonrpc |-> "2.0", id |-> OriginalId(This, c),
                       result |-> Unwrapped(result)]
               ELSE t.settled[1].val = result

\* C12: sendError for an id that has a registered call rejects that call's
\* promise with the error given and removes the call's entry (callbacks and
\* wrapResults); for an id that has none it settles nothing, changes nothing
\* and throws nothing.
C12_SendError ==
    \A id \in IdSpace, error \in HostErrors :
      LET t == sendError(This, id, error)
      IN  IF Has(callbacks, id)
          THEN /\ t.settled = <<[call |-> callbacks[id], st |-> "rejected", val |-> error]>>
               /\ ~Has(t.cb, id)
               /\ ~Has(t.wr, id)
               /\ t.threw = Null
          ELSE NoOp(t) /\ t.settled = << >> /\ t.frameHits = {}

\* What sendError does: the closure registered under the id is invoked once
\* with the error (wrapped in an Error when it is not one), which rejects its
\* call if that call is still pending, and the callbacks entry is deleted;
\* nothing else changes.  Without a registered closure nothing happens.
C12_AsCoded ==
    \A id \in IdSpace, error \in HostErrors :
      LET t == sendError(This, id, error)
          e == IF error.t = "err" THEN error
               ELSE [t |-> "err", name |-> "Error", message |-> error.s]
      IN  IF Has(callbacks, id)
          THEN LET c == callbacks[id]
               IN  /\ t.invoked = <<c>>
                   /\ t.settled = IF calls[c].st = "pending"
                                  THEN <<[call |-> c, st |-> "rejected", val |-> e]>>
                                  ELSE << >>
                   /\ t.cb = [x \in DOMAIN callbacks \ {id} |-> callbacks[x]]
                   /\ t.wr = wrapResults
                   /\ t.ids = intIds
                   /\ t.threw = Null
          ELSE NoOp(t) /\ t.settled = << >> /\ t.frameHits = {}

\* C13: sendResponse for an id this instance has no registered call for settles
\* no call of this instance, delivers the response to exactly the frames whose
\* provider has the id registered (to none when no frame has it), and returns
\* without throwing.
C13_OrphanResponse ==
    \A id \in IdSpace \ DOMAIN callbacks, result \in HostResults :
      \A holders \in SUBSET Frames :
        LET t == sendResponse(This, id, result, holders)
        IN  /\ t.settled = << >>
            /\ t.invoked = << >>
            /\ t.calls = calls
            /\ t.frameHits = holders
            /\ t.threw = Null

\* Call c is settled and no call still pending runs under its internal id.
SettledAlone(c) ==
    /\ calls[c].st # "pending"
    /\ \A d \in DOMAIN calls : calls[d].st = "pending" => calls[d].id # calls[c].id

\* C14: once a call has been settled through its closure (by sendResponse, by
\* sendError or by the not-ready gate), callbacks and wrapResults hold no entry
\* for its internal id; once every call is settled both maps are empty.
C14_PendingCallRemoved ==
    /\ \A c \in DOMAIN calls :
          (calls[c].inv >= 1 /\ SettledAlone(c)) =>
            (~Has(callbacks, calls[c].id) /\ ~Has(wrapResults, calls[c].id))
    /\ (\A c \in DOMAIN calls : calls[c].st # "pending") =>
          (callbacks = EmptyMap /\ wrapResults = EmptyMap)

\* The callbacks half of C14: a call settled through its closure, whose
\* internal id no other call has had, has no callbacks entry left.
C14_CallbacksPart ==
    \A c \in DOMAIN calls :
      (calls[c].inv >= 1 /\ \A d \in DOMAIN calls : d # c => calls[d].id # calls[c].id)
        => ~Has(callbacks, calls[c].id)

\* C15: by the time a call is settled, whichever way, the IdMapping holds no
\* entry for its internal id; once every call is settled the IdMapping is
\* empty.
C15_CorrelationEntryConsumed ==
    /\ \A c \in DOMAIN calls : SettledAlone(c) => ~Has(intIds, calls[c].id)
    /\ (\A c \in DOMAIN calls : calls[c].st # "pending") => intIds = EmptyMap

\* The sendResponse part of C15: a call resolved through sendResponse (by the
\* host or by a local method) has no IdMapping entry left.
C15_SendResponsePart ==
    \A c \in DOMAIN calls :
      (calls[c].st = "resolved" /\ calls[c].inv = 1 /\ SettledAlone(c)) =>
        ~Has(intIds, calls[c].id)

\* The payload objects send can be called with.
SendPayloads == {p \in SendInputs : p.k = "payload"}

\* The code of an error, 0 when it carries none.
CodeOf(e) == IF "code" \in DOMAIN e THEN e.code ELSE 0

\* C16: send(payload), called without a callback, returns {jsonrpc: "2.0",
\* id: payload.id, result} with the session's value for the four local methods
\* and throws an error of code 4200 for every other method; either way it
\* registers no call, posts no message and calls nothing upstream.
C16_SynchronousSend ==
    \A payload \in SendPayloads :
      \A gen \in genId, id \in NextIds(payload) :
        LET t == send(This, payload, "null", gen, id)
        IN  /\ IF payload.method \in LocalMethods
               THEN /\ t.threw = Null
                    /\ t.ret = [t |-> "obj", jsonrpc |-> "2.0", id |-> payload.id,
                                result |-> SessionValue(session, payload.method)]
               ELSE /\ t.threw # Null
                    /\ CodeOf(t.threw) = 4200
            /\ t.cb = callbacks
            /\ t.wr = wrapResults
            /\ t.calls = calls
            /\ t.msgs = << >>
            /\ ~t.upstream

\* The internal ids the call made by the next send may run under.
SendIds == IF Len(calls) < MaxCalls THEN FreshIds ELSE {}

\* The one call of the caller's callback that a settlement owes it.
OwedCallback(st, val) ==
    IF st = "resolved" THEN <<[error |-> Null, data |-> val]>>
    ELSE <<[error |-> val, data |-> Null]>>

\* C17: send(payload, callback) makes a request and throws nothing, and the
\* callback is called exactly once when the request settles: with (null, data)
\* when it resolves, with (error, null) when it rejects (not ready,
\* unsupported, or an error of the host); send(payload) without callback and
\* send(method, callback) throw and register nothing.
C17_SendWithCallback ==
    /\ \A payload \in SendPayloads, gen \in genId, id \in SendIds :
          LET t == send(This, payload, "function", gen, id)
          IN  /\ t.threw = Null
              /\ Len(t.calls) = Len(calls) + 1
              /\ \A i \in DOMAIN t.settled :
                    sendSettled(t.settled[i].st, t.settled[i].val, FALSE).cbCalls
                      = OwedCallback(t.settled[i].st, t.settled[i].val)
    /\ \A result \in HostResults :
          sendSettled("resolved", result, FALSE).cbCalls = OwedCallback("resolved", result)
    /\ \A error \in HostErrors \cup {UpstreamError} :
          sendSettled("rejected", error, FALSE).cbCalls = OwedCallback("rejected", error)
    /\ \A p \in SendInputs, gen \in genId, id \in SendIds :
          LET t == send(This, p, IF p.k = "payload" THEN "null" ELSE "function", gen, id)
          IN  /\ t.threw # Null
              /\ t.cb = callbacks /\ t.wr = wrapResults /\ t.ids = intIds
              /\ t.calls = calls

\* What holds of send(payload, callback): a request is made, the callback is
\* called once with (null, data) when it resolves and is not called when it
\* rejects; the two other combinations throw and register nothing.
C17_AsCoded ==
    /\ \A payload \in SendPayloads, gen \in genId, id \in SendIds :
          LET t == send(This, payload, "function", gen, id)
          IN  /\ t.threw = Null
              /\ Len(t.calls) = Len(calls) + 1
              /\ \A i \in DOMAIN t.settled :
                    sendSettled(t.settled[i].st, t.settled[i].val, FALSE).cbCalls
                      = IF t.settled[i].st = "resolved"
                        THEN OwedCallback("resolved", t.settled[i].val) ELSE << >>
    /\ \A p \in SendInputs, gen \in genId, id \in SendIds :
          LET t == send(This, p, IF p.k = "payload" THEN "null" ELSE "function", gen, id)
          IN  /\ t.threw # Null
              /\ t.cb = callbacks /\ t.wr = wrapResults /\ t.ids = intIds
              /\ t.calls = calls

\* C18: a step that changes the session (address, ready, chainId,
\* networkVersion) is a step of setAddress or setConfig; no request, send,
\* sendResponse, sendError or upstream answer changes it.
C18_SessionChangedOnlyByConfiguration ==
    [][(session' # session) =>
         \/ \E address \in AddressInputs : SetAddress(address)
         \/ \E config \in Configs : SetConfig(config)]_vars

\* C18 witness: on a provider configured with an account, two calls were
\* posted to the host, which answered one with sendError and the other with
\* sendResponse.
C18_Witness ==
    /\ session.ready
    /\ Len(calls) = MaxCalls
    /\ calls[1].kind = "bridge" /\ calls[1].route = "BridgeDispatched"
    /\ calls[1].st = "rejected" /\ calls[1].inv = 1
    /\ calls[2].kind = "bridge" /\ calls[2].route = "BridgeDispatched"
    /\ calls[2].st = "resolved" /\ calls[2].inv = 1

\* The four places the switch of _request can leave a call.
Routes ==
    {"LocalResolved", "BridgeDispatched", "UpstreamDispatched", "RejectedImmediately"}

\* What a route says of the call c it was given, in the outcome t of _request:
\* how many messages went to the host, whether upstream was called, and the
\* promise.
RouteHolds(t, c) ==
    LET r == t.calls[c].route IN
    /\ r \in Routes
    /\ Len(t.msgs) <= 1
    /\ ~(t.msgs # << >> /\ t.upstream)
    /\ (r = "BridgeDispatched") = (Len(t.msgs) = 1)
    /\ (r = "UpstreamDispatched") = t.upstream
    /\ (r = "LocalResolved") => t.calls[c].st = "resolved"
    /\ (r = "RejectedImmediately") => t.calls[c].st = "rejected"
    /\ (r \in {"BridgeDispatched", "UpstreamDispatched"}) => t.calls[c].st = "pending"
    /\ (r = "UpstreamDispatched") = (t.calls[c].up = "pending")

\* Every call _request would take leaves the executor on exactly one route,
\* and every call taken so far has one, a pending call a dispatched one.
C19_OneRoute ==
    /\ \A payload \in Payloads(Methods), wrapResult \in BOOLEAN :
         \A id \in NextIds(payload) :
           RouteHolds(_request(This, payload, wrapResult, id), Len(calls) + 1)
    /\ \A c \in DOMAIN calls :
         /\ calls[c].route \in Routes
         /\ calls[c].st = "pending"
              => calls[c].route \in {"BridgeDispatched", "UpstreamDispatched"}
         /\ (calls[c].up # "none") = (calls[c].route = "UpstreamDispatched")

\* A step leaves the route of every call and the promise of every settled call
\* as they are, and hands no call to upstream after its creation.
C19_SettledIsTerminal ==
    \A c \in DOMAIN calls :
      /\ c \in DOMAIN calls'
      /\ calls'[c].route = calls[c].route
      /\ calls[c].st # "pending" => calls'[c].st = calls[c].st
      /\ calls[c].up = "none" => calls'[c].up = "none"

\* C19: a request leaves Created on exactly one of LocalResolved,
\* BridgeDispatched, UpstreamDispatched and RejectedImmediately: it posts at
\* most one message to the host, never both posts a message and calls upstream,
\* is pending afterwards only if it was dispatched, and once it is settled no
\* step makes it pending again or changes its route.
C19_RequestStateMachine ==
    /\ []C19_OneRoute
    /\ [][C19_SettledIsTerminal]_vars

\* C19 witness: one call was posted to the host and resolved by its answer,
\* the other was handed to upstream and rejected by its failure.
C19_Witness ==
    /\ Len(calls) = MaxCalls
    /\ calls[1].route = "BridgeDispatched" /\ calls[1].st = "resolved"
    /\ calls[1].inv = 1
    /\ calls[2].route = "UpstreamDispatched" /\ calls[2].st = "rejected"
    /\ calls[2].up = "done"
    /\ ~Has(callbacks, calls[1].id)

(***************************************************************************)
(* Liveness.  The host application and the upstream server are outside the *)
(* provider; the specification below adds what the liveness of a call      *)
(* rests on: the host answers every id it was posted and still owes an     *)
(* answer, and every upstream promise completes.                           *)
(***************************************************************************)
\* The host calls sendResponse or sendError for an id posted to it by a call
\* that is still pending.
HostAnswers(id) ==
    /\ \E c \in DOMAIN calls : AwaitsHost(c) /\ calls[c].id = id
    /\ \/ \E result \in HostResults : HostSendResponse(id, result)
       \/ \E error \in HostErrors : HostSendError(id, error)

\* The promise of this.rpc.call(payload) for call c completes.
UpstreamAnswers(c) ==
    \/ \E result \in UpstreamResults : UpstreamFulfils(c, result)
    \/ UpstreamRejects(c)

BackendsAnswer ==
    /\ \A id \in IdSpace : WF_vars(HostAnswers(id))
    /\ \A c \in 1 .. MaxCalls : WF_vars(UpstreamAnswers(c))

SpecLive == Init /\ [][Next]_vars /\ BackendsAnswer

\* Call c was posted to the host or handed to upstream.
Dispatched(c) ==
    /\ c \in DOMAIN calls
    /\ calls[c].route \in {"BridgeDispatched", "UpstreamDispatched"}

\* Call c is resolved or rejected.
Settled(c) == c \in DOMAIN calls /\ calls[c].st # "pending"

\* C20: when the host answers every id posted to it and every upstream
\* promise completes, every dispatched call is eventually resolved or
\* rejected.
C20_AnsweredCallsSettle ==
    \A c \in 1 .. MaxCalls : Dispatched(c) ~> Settled(c)

\* Another call runs under the internal id of call c.
SharesId(c) ==
    /\ c \in DOMAIN calls
    /\ \E d \in DOMAIN calls : d # c /\ calls[d].id = calls[c].id

\* The same for calls whose internal id no other call is given.
C20_UniqueIdPart ==
    \A c \in 1 .. MaxCalls : Dispatched(c) ~> (Settled(c) \/ SharesId(c))

\* A call that is not dispatched is settled when _request returns, and a
\* pending call is settled only by a step in which the host delivers for its
\* id or its upstream promise completes.
C20_NoWaitPart ==
    /\ [](\A c \in DOMAIN calls : ~Dispatched(c) => Settled(c))
    /\ [][\A c \in DOMAIN calls :
            (calls[c].st = "pending" /\ calls'[c].st # "pending") =>
               \/ /\ calls[c].route = "BridgeDispatched"
                  /\ \/ \E result \in HostResults : HostSendResponse(calls[c].id, result)
                     \/ \E error \in HostErrors : HostSendError(calls[c].id, error)
               \/ /\ calls[c].route = "UpstreamDispatched"
                  /\ UpstreamAnswers(c)]_vars

\* The action the routing table gives a method; for eth_sign it depends on
\* whether the bytes to sign are valid UTF-8.
ActionOf(method, params) ==
    CASE method = "eth_sign" ->
             IF params = "binary" THEN "signMessage" ELSE "signPersonalMessage"
      [] method = "personal_sign" -> "signPersonalMessage"
      [] method = "personal_ecRecover" -> "ecRecover"
      [] method \in {"eth_signTypedData", "eth_signTypedData_v3", "eth_signTypedData_v4"}
             -> "signTypedMessage"
      [] method = "eth_sendTransaction" -> "signTransaction"
      [] method = "eth_requestAccounts" -> "requestAccounts"
      [] method = "wallet_watchAsset" -> "watchAsset"
      [] method = "wallet_addEthereumChain" -> "addEthereumChain"
      [] method = "wallet_switchEthereumChain" -> "switchEthereumChain"
      [] method = "wallet_getPermissions" -> "getPermissions"
      [] method = "wallet_requestPermissions" -> "requestPermissions"

\* C21: every message _request posts to the host for a dispatched method
\* carries the action the routing table gives the method (for eth_sign,
\* signPersonalMessage when the bytes are valid UTF-8 and signMessage
\* otherwise) and the call's internal id in string form; with well-formed
\* params and a ready provider the message is posted.
C21_RoutingTable ==
    \A payload \in Payloads(BridgeMethods), wrapResult \in BOOLEAN :
      \A id \in NextIds(payload) :
        LET t == _request(This, payload, wrapResult, id)
            c == Len(calls) + 1
        IN  /\ \A i \in DOMAIN t.msgs :
                 /\ t.msgs[i].name = ActionOf(payload.method, payload.params)
                 /\ t.msgs[i].id = StrId(t.calls[c].id)
            /\ (session.ready /\ payload.params \in {"utf8", "binary"})
                 => Len(t.msgs) = 1

\* C21 witness: a ready provider has posted two calls to the host, both still
\* awaiting its answer, one asking for an envelope and one for a bare result.
C21_Witness ==
    /\ session.ready
    /\ Len(calls) = MaxCalls
    /\ \A c \in DOMAIN calls :
          /\ calls[c].kind = "bridge"
          /\ calls[c].route = "BridgeDispatched"
          /\ calls[c].st = "pending"
          /\ Has(callbacks, calls[c].id)
    /\ calls[1].id # calls[2].id
    /\ calls[1].wrap /\ ~calls[2].wrap

\* ready is true exactly when the stored address is non-empty, the stored
\* address is in lowercase, and eth_accounts answers with the empty list
\* exactly when ready is false.
C22_ReadyIffAddress ==
    /\ session.ready = (session.address # "")
    /\ toLowerCase(session.address) = session.address
    /\ (eth_accounts(session) = ListV(<< >>)) = ~session.ready
    /\ session.ready => eth_accounts(session) = ListV(<<session.address>>)

\* A step that changes the stored address is a setAddress or setConfig whose
\* address, in lowercase, is the address stored afterwards.
C22_LastAddressSupplied ==
    (session'.address # session.address) =>
       \E address \in AddressInputs :
          /\ session'.address = toLowerCase(address)
          /\ \/ SetAddress(address)
             \/ \E config \in Configs : config.address = address /\ SetConfig(config)

\* C22: after construction and after any setAddress and setConfig calls, ready
\* is true exactly when the stored address is a non-empty string, the stored
\* address is the lowercase form of the last address supplied, and
\* eth_accounts answers with the empty list exactly when ready is false.
C22_ReadinessFollowsAddress ==
    /\ []C22_ReadyIffAddress
    /\ [][C22_LastAddressSupplied]_vars

\* C22 witness: a call was turned away, the provider has an account now (it
\* was given one in between or the call was malformed), and a local call has
\* been answered since.
C22_Witness ==
    /\ session.ready
    /\ session.address = "0xabc"
    /\ Len(calls) = MaxCalls
    /\ calls[1].kind = "bridge" /\ calls[1].route = "RejectedImmediately"
    /\ calls[2].kind = "local" /\ calls[2].st = "resolved"

\* Call c was handed to the upstream server (answered or not).
WentUpstream(c) == c \in DOMAIN calls /\ calls[c].route = "UpstreamDispatched"

\* A host delivery whose outcome t found no pending call: no closure invoked,
\* no promise settled, callbacks and wrapResults as they were, nothing thrown.
NoPendingCallFound(t) ==
    /\ t.invoked = << >>
    /\ t.settled = << >>
    /\ t.cb = callbacks
    /\ t.wr = wrapResults
    /\ t.calls = calls
    /\ t.threw = Null

\* C23: for a call handed to upstream, a sendResponse or sendError for its
\* internal id, before or after the upstream answer, finds no pending call,
\* settles no caller and (sendResponse) goes the way of an orphan response.
C23_OnlyUpstreamSettles ==
    \A c \in DOMAIN calls :
      WentUpstream(c) =>
        /\ ~Has(callbacks, calls[c].id)
        /\ \A result \in HostResults :
              LET t == sendResponse(This, calls[c].id, result, Frames)
              IN  NoPendingCallFound(t) /\ t.frameHits = Frames
        /\ \A error \in HostErrors :
              NoPendingCallFound(sendError(This, calls[c].id, error))

\* The same for a call whose internal id no other call is given.
C23_UniqueIdPart ==
    \A c \in DOMAIN calls :
      (WentUpstream(c) /\ ~SharesId(c)) =>
        /\ ~Has(callbacks, calls[c].id)
        /\ \A result \in HostResults :
              LET t == sendResponse(This, calls[c].id, result, Frames)
              IN  NoPendingCallFound(t) /\ t.frameHits = Frames
        /\ \A error \in HostErrors :
              NoPendingCallFound(sendError(This, calls[c].id, error))

\* Whatever ids are shared: no host delivery changes the promise of a call
\* handed to upstream or invokes its closure, and a step that settles such a
\* call is the completion of its upstream promise.
C23_CallerPart ==
    /\ [](\A c \in DOMAIN calls :
            WentUpstream(c) =>
              /\ calls[c].inv = 0
              /\ \A id \in IdSpace :
                   /\ \A result \in HostResults :
                        sendResponse(This, id, result, Frames).calls[c] = calls[c]
                   /\ \A error \in HostErrors :
                        sendError(This, id, error).calls[c] = calls[c])
    /\ [][\A c \in DOMAIN calls :
            (WentUpstream(c) /\ calls'[c].st # calls[c].st) => UpstreamAnswers(c)]_vars

\* Call c settled as st in the outcome t of a handler.
SettledAs(t, c, st) ==
    \E i \in DOMAIN t.settled : t.settled[i].call = c /\ t.settled[i].st = st

\* No step revives a call: the promise of a settled call, the messages it
\* posted (its route) and its upstream call stay as they are, and a step of
\* setAddress or setConfig leaves every call and every map as it is.
C24_NeverRevived ==
    /\ \A c \in DOMAIN calls :
          calls[c].route = "RejectedImmediately" =>
             /\ c \in DOMAIN calls'
             /\ calls'[c].st = "rejected"
             /\ calls'[c].route = "RejectedImmediately"
             /\ calls'[c].up = "none"
    /\ (session'.ready # session.ready) =>
          /\ calls' = calls
          /\ callbacks' = callbacks
          /\ wrapResults' = wrapResults
          /\ intIds' = intIds

\* C24: the readiness gate is looked at only when a call is dispatched: a call
\* posted to the host and still pending is resolved by a sendResponse and
\* rejected by a sendError for its internal id whatever ready has become, and
\* a call rejected on the spot is never revived or posted later.
C24_GateOnlyAtDispatch ==
    /\ [](\A c \in DOMAIN calls :
            AwaitsHost(c) =>
              /\ \A result \in HostResults :
                   SettledAs(sendResponse(This, calls[c].id, result, {}), c, "resolved")
              /\ \A error \in HostErrors :
                   SettledAs(sendError(This, calls[c].id, error), c, "rejected"))
    /\ [][C24_NeverRevived]_vars

\* The provider with the readiness flag the other way.
Flip(this) == [this EXCEPT !.s.ready = ~@]

\* What holds of the gate whatever ids are shared: sendResponse and sendError
\* do the same with ready either way; a pending posted call that holds the
\* entry of its id is resolved by sendResponse and rejected by sendError also
\* while ready is false; and no call is revived.
C24_ReadyIndependentPart ==
    /\ [](/\ \A id \in IdSpace, result \in HostResults, holders \in {{}, Frames} :
               sendResponse(Flip(This), id, result, holders)
                  = Flip(sendResponse(This, id, result, holders))
          /\ \A id \in IdSpace, error \in HostErrors :
               sendError(Flip(This), id, error) = Flip(sendError(This, id, error))
          /\ \A c \in DOMAIN calls :
               (AwaitsHost(c) /\ Has(callbacks, calls[c].id)
                              /\ callbacks[calls[c].id] = c) =>
                 /\ \A result \in HostResults :
                      SettledAs(sendResponse(This, calls[c].id, result, {}), c, "resolved")
                 /\ \A error \in HostErrors :
                      SettledAs(sendError(This, calls[c].id, error), c, "rejected"))
    /\ [][C24_NeverRevived]_vars

\* The arrays sendAsync can be called with while the provider takes their
\* calls, and the calls an array of n elements makes.
AsyncArrays ==
    UNION {[1 .. n -> AsyncElements] :
             n \in 1 .. (IF Len(calls) + 2 <= MaxCalls THEN 2
                         ELSE IF Len(calls) < MaxCalls THEN 1 ELSE 0)}
AsyncCalls(n) == [i \in 1 .. n |-> Len(calls) + i]

\* The host answers the ids of an array's calls, last element first.
RECURSIVE answeredBackwards(_, _, _)
answeredBackwards(t, ids, result) ==
    IF ids = << >> THEN t
    ELSE answeredBackwards(sendResponse(t, ids[Len(ids)], result, {}),
                           SubSeq(ids, 1, Len(ids) - 1), result)

\* A reply envelope.
IsReplyEnvelope(v) == v.t = "obj" /\ v.jsonrpc = "2.0"

\* What the caller's callback is owed for the promise p of an array of n
\* elements: one call, with the list of n reply envelopes or with the error.
OwedOnce(p, n, cbCalls) ==
    /\ p.st = "resolved" =>
          /\ Len(cbCalls) = 1
          /\ cbCalls[1].error = Null
          /\ cbCalls[1].data.t = "list"
          /\ Len(cbCalls[1].data.items) = n
          /\ \A i \in 1 .. n : IsReplyEnvelope(cbCalls[1].data.items[i])
    /\ p.st = "rejected" => cbCalls = <<[error |-> p.val, data |-> Null]>>
    /\ p.st = "pending" => cbCalls = << >>

\* C25: sendAsync with an array registers one call per element, each expecting
\* an envelope, and calls the callback exactly once: with (null, the reply
\* envelopes in the order of the array) once every element is resolved,
\* whatever order the answers came in, or with (error, null) on the first
\* rejection.
C25_SendAsyncArray ==
    \A payload \in AsyncArrays :
      \A ids \in AsyncIds(payload), cbThrows \in BOOLEAN :
        LET n == Len(payload)
            cs == AsyncCalls(n)
            t == sendAsync(This, TRUE, payload, ids)
        IN  /\ Len(t.calls) = Len(calls) + n
            /\ \A i \in 1 .. n : t.calls[cs[i]].wrap
            /\ OwedOnce(promiseAll(t.settled, cs), n,
                        sendAsyncSettled(promiseAll(t.settled, cs), cbThrows))
            /\ \A result \in HostResults :
                 LET p == promiseAll(answeredBackwards(t, ids, result).settled, cs)
                 IN  OwedOnce(p, n, sendAsyncSettled(p, cbThrows))

\* What the code does: element number i (from 1) runs as _request(element,
\* i - 1), so the first element expects a bare result and the others an
\* envelope; with a callback that does not throw the callback is called
\* exactly once, with the error of the first rejection or with the list, in
\* the order of the array, of the first element's bare result followed by the
\* envelopes of the others.
C25_AsCoded ==
    \A payload \in AsyncArrays :
      \A ids \in AsyncIds(payload) :
        LET n == Len(payload)
            cs == AsyncCalls(n)
            t == sendAsync(This, TRUE, payload, ids)
        IN  /\ Len(t.calls) = Len(calls) + n
            /\ \A i \in 1 .. n : t.calls[cs[i]].wrap = (i # 1)
            /\ \A result \in HostResults \cup {Null} :
                 LET u == IF result = Null THEN t   \* before the host answers
                          ELSE answeredBackwards(t, ids, result)
                     p == promiseAll(u.settled, cs)
                     cbCalls == sendAsyncSettled(p, FALSE)
                 IN  /\ p.st = "pending" => cbCalls = << >>
                     /\ p.st = "rejected" =>
                          /\ cbCalls = <<[error |-> p.val, data |-> Null]>>
                          /\ \E i \in 1 .. n : u.calls[cs[i]].st = "rejected"
                     /\ p.st = "resolved" =>
                          /\ Len(cbCalls) = 1
                          /\ cbCalls[1].error = Null
                          /\ Len(cbCalls[1].data.items) = n
                          /\ \A i \in 1 .. n : u.calls[cs[i]].st = "resolved"
                          /\ \A i \in 2 .. n :
                               IsReplyEnvelope(cbCalls[1].data.items[i])
                          /\ payload[1].method \in LocalMethods =>
                               cbCalls[1].data.items[1]
                                  = SessionValue(session, payload[1].method)

====
